---------------------------- MODULE Spec2Model ----------------------------
(***************************************************************************)
(* GameConfigurator (src/README.md, lines 62-636): the selection state of  *)
(* the configurator, its catalog load, the selection handlers, the derived *)
(* canSubmit predicate and the checkout action buildAndRedirect.           *)
(*                                                                         *)
(* Encodings.  A JavaScript string that the code takes apart (modDraft,    *)
(* the mod names) is a sequence of one-character strings, "" being <<>>.   *)
(* `players` has type number | "": it is <<>> for "" and <<n>> for the     *)
(* number n.                                                               *)
(***************************************************************************)
EXTENDS Integers, Sequences, FiniteSets, TLC

(***************************************************************************)
(* Bounds of the model.                                                    *)
(***************************************************************************)
\* cap on the checkout requests outstanding at once
MaxInflight == 2

\* cap on the catalog loads in flight at once
MaxLoads == 2

(***************************************************************************)
(* Reference data served by the API.                                       *)
(***************************************************************************)
\* type GameInfo
GameInfo(id, name, minP, maxP, minM, maxM) ==
  [ id         |-> id,
    name       |-> name,
    minPlayers |-> minP,
    maxPlayers |-> maxP,
    minMods    |-> minM,
    maxMods    |-> maxM ]

\* games.json: mods unsupported / optional / required, a minimum of no
\* players, single-valued ranges, overlapping and disjoint player ranges
GamesDb ==
  << GameInfo("minecraft", "Minecraft", 1, 3, 0, 2),
     GameInfo("valheim",   "Valheim",   2, 3, 0, 0),
     GameInfo("rust",      "Rust",      0, 2, 1, 2),
     GameInfo("ark",       "ARK",       1, 1, 1, 1),
     GameInfo("terraria",  "Terraria",  0, 1, 0, 1),
     GameInfo("factorio",  "Factorio",  3, 3, 2, 2) >>

\* locations.json
LocationsDb ==
  << [ id |-> "nyc", name |-> "New York" ],
     [ id |-> "fra", name |-> "Frankfurt" ] >>

Range(s) == { s[i] : i \in 1..Len(s) }

(***************************************************************************)
(* JavaScript helpers.                                                     *)
(***************************************************************************)
\* String.prototype.trim over the characters of the model
RECURSIVE TrimStart(_)
TrimStart(s) ==
  IF s # <<>> /\ Head(s) = " " THEN TrimStart(Tail(s)) ELSE s

RECURSIVE TrimEnd(_)
TrimEnd(s) ==
  IF s # <<>> /\ s[Len(s)] = " " THEN TrimEnd(SubSeq(s, 1, Len(s) - 1)) ELSE s

Trim(s) == TrimEnd(TrimStart(s))

\* decimal digits of a natural number, as in a template literal `${n}`
RECURSIVE NumStr(_)
NumStr(n) ==
  LET Digit == <<"0", "1", "2", "3", "4", "5", "6", "7", "8", "9">>
  IN  IF n < 10 THEN << Digit[n + 1] >>
      ELSE NumStr(n \div 10) \o << Digit[(n % 10) + 1] >>

\* Array.prototype.slice(0, n) for n >= 0
Slice0(s, n) == SubSeq(s, 1, IF n < Len(s) THEN n ELSE Len(s))

\* Array.prototype.includes
Includes(s, x) == \E i \in 1..Len(s) : s[i] = x

\* Math.max / Math.min
MathMax(a, b) == IF a >= b THEN a ELSE b
MathMin(a, b) == IF a <= b THEN a ELSE b

\* a range input that lacks the max attribute
RangeInputWithoutMax(v, min, max) == IF v < min THEN min ELSE v

\* the value an <input type="range" min max> takes when moved to position v
RangeInputValue(v, min, max) == IF v < min THEN min ELSE IF v > max THEN max ELSE v

(***************************************************************************)
(* State of the component.                                                 *)
(***************************************************************************)
VARIABLES
  initialGameName,  \* prop: the requested game name, "" when absent
  games,            \* useState<GameInfo[]>
  locations,        \* useState<LocationInfo[]>
  gameId,           \* useState<string>
  players,          \* useState<number | "">: <<>> is "", <<n>> the number n
  locationId,       \* useState<string>
  mods,             \* useState<string[]>
  modDraft,         \* useState("")
  loading,          \* useState(true)
  err,              \* useState<string | null>: <<>> is null
  building,         \* useState(false)
  selectedPlan,     \* billing plan name
  selectedTier,     \* performance tier id
  loads,            \* catalog loads in flight, oldest first
  inflight,         \* buildlink requests sent and not yet answered
  alert,            \* the blocking alert() dialog on screen, if any
  href              \* window.location.href once the page navigates away

vars == << initialGameName, games, locations, gameId, players, locationId, mods,
           modDraft, loading, err, building, selectedPlan, selectedTier,
           loads, inflight, alert, href >>

selection == << gameId, players, locationId, mods, selectedPlan, selectedTier >>

\* const pricingPlans
pricingPlans == << "Monthly", "Quarterly", "Semi-annually", "Annually" >>

\* const serverTiers
serverTiers == << "budget", "standard", "premium" >>

NoAlert == [ msg |-> <<>>, next |-> "none" ]
NoHref  == ""
Pending == [ state |-> "pending" ]

(***************************************************************************)
(* JSON bodies and HTTP responses.                                         *)
(***************************************************************************)
JArray(items)  == [ t |-> "array", items |-> items ]
JObject(v)     == [ t |-> "object", v |-> v ]
JString(str)   == [ t |-> "string", s |-> str ]
JBool(b)       == [ t |-> "boolean", b |-> b ]
JNull          == [ t |-> "null" ]
JUndefined     == [ t |-> "undefined" ]
JEnvelope(ok, d) == JObject([ ok |-> JBool(ok), data |-> d ])
\* a list of objects, and the entries of a list as the state holds them: the
\* record of an object, null as itself
JList(recs)    == JArray([ i \in 1..Len(recs) |-> JObject(recs[i]) ])
Records(items) ==
  [ i \in 1..Len(items) |-> IF items[i].t = "null" THEN items[i] ELSE items[i].v ]
Http(status, body) == [ ok |-> status = 200, status |-> status, body |-> body ]

\* Array.isArray
IsArray(j) == j.t = "array"

\* j is null or undefined: reading a property of it throws a TypeError
Nullish(j) == j.t \in { "null", "undefined" }

\* j[k] for a j that is not nullish
Get(j, k) == IF j.t = "object" /\ k \in DOMAIN j.v THEN j.v[k] ELSE JUndefined

\* ToBoolean
Truthy(j) ==
  CASE j.t = "string"  -> j.s # ""
    [] j.t = "boolean" -> j.b
    [] Nullish(j)      -> FALSE
    [] OTHER           -> TRUE

\* a || b
OrElse(a, b) == IF Truthy(a) THEN a ELSE b

TypeErrorMessage == << "Cannot read properties of null" >>

\* response.ok ? response.data : response
Unwrap(response) ==
  IF Truthy(Get(response, "ok")) THEN Get(response, "data") ELSE response

\* const fetchJSON: the value the promise fulfils with, or the error thrown
fetchJSON(path, res) ==
  IF ~res.ok
    THEN [ threw |-> TRUE, message |-> << "Failed to fetch", path, res.status >> ]
    ELSE IF Nullish(res.body)
      THEN [ threw |-> TRUE, message |-> TypeErrorMessage ]
      ELSE [ threw |-> FALSE, value |-> Unwrap(res.body) ]

\* const fetchGameByName, after its fetchJSON has fulfilled with resp
fetchGameByName(resp) == IF IsArray(resp) THEN resp ELSE JArray(<< resp >>)

(***************************************************************************)
(* The API, as the component sees it.                                      *)
(***************************************************************************)
\* the names a page may request: none, a game of games.json, or an unknown one
GameNames == { "", "Unknown" } \cup { GamesDb[i].name : i \in 1..Len(GamesDb) }

\* payloads of games.json[&game=name]; a name the catalog does not hold is
\* answered with an empty list or with null
GamesPayloads(name) ==
  IF name = ""
    THEN { JList(GamesDb) }
    ELSE LET hits == SelectSeq(GamesDb, LAMBDA g : g.name = name)
         IN  IF hits = <<>> THEN { JArray(<<>>), JNull }
             ELSE { JObject(hits[1]), JList(hits) }

\* payloads of locations.json: a list, or something that is not a list
LocationsPayloads ==
  { JList(SubSeq(LocationsDb, 1, k)) : k \in 0..Len(LocationsDb) }
    \cup { JObject([ error |-> "unavailable" ]) }

\* a payload arrives bare or wrapped in {ok: true, data}; or the call fails
Responses(payloads) ==
  { Http(200, b) : b \in payloads }
    \cup { Http(200, JEnvelope(TRUE, b)) : b \in payloads }
    \cup { Http(500, JObject([ error |-> "server" ])) }

\* responses of the locations endpoint: those above, and the list in an
\* envelope whose ok is false
LocationsResponses ==
  Responses(LocationsPayloads) \cup { Http(200, JEnvelope(FALSE, JList(LocationsDb))) }

(***************************************************************************)
(* Derived values of a render.                                             *)
(***************************************************************************)
IsNumber(p) == Len(p) = 1
Num(p) == p[1]

\* games.find((g) => g.id === id)
FindGame(gs, id) ==
  LET hit == { i \in 1..Len(gs) : gs[i].id = id }
  IN  IF hit = {} THEN 0 ELSE CHOOSE i \in hit : \A j \in hit : i <= j

\* const currentGame is null exactly when no game is held
HasGame(gs) == Len(gs) > 0

\* const currentGame, when it is not null
CurrentGameOf(gs, id) == IF FindGame(gs, id) # 0 THEN gs[FindGame(gs, id)] ELSE gs[1]

currentGame == CurrentGameOf(games, gameId)

\* const modsSupported / modsRequired
modsSupported == IF HasGame(games) THEN currentGame.maxMods > 0 ELSE FALSE
modsRequired  == IF HasGame(games) THEN currentGame.minMods > 0 ELSE FALSE

\* the configurator (not the spinner, the error text or "No game data") is on
\* screen and the page has not navigated away or been blocked by an alert
Rendered ==
  /\ ~loading
  /\ err = <<>>
  /\ HasGame(games)
  /\ alert = NoAlert
  /\ href = NoHref

\* the event loop is free to run a callback
Idle == alert = NoAlert /\ href = NoHref

\* a [gameId] effect that bounds the players and forgets the mods
NormalizePlayersOnly(cg, pl, md, draft) ==
  LET p == IF IsNumber(pl) THEN Num(pl) ELSE cg.minPlayers
  IN  [ players  |-> << MathMax(cg.minPlayers, MathMin(cg.maxPlayers, p)) >>,
        mods     |-> md,
        modDraft |-> draft ]

\* a [gameId] effect that lifts the players to the minimum and never lowers
\* them to the maximum
NormalizeWithoutUpperClamp(cg, pl, md, draft) ==
  LET p == IF IsNumber(pl) THEN Num(pl) ELSE cg.minPlayers
  IN  [ players  |-> << MathMax(cg.minPlayers, p) >>,
        mods     |-> IF cg.maxMods = 0 THEN <<>>
                     ELSE IF Len(md) > cg.maxMods THEN Slice0(md, cg.maxMods)
                     ELSE md,
        modDraft |-> IF cg.maxMods = 0 THEN <<>> ELSE draft ]

(***************************************************************************)
(* useEffect [gameId]: normalize players/mods when the game changes.       *)
(***************************************************************************)
NormalizeOnGame(cg, pl, md, draft) ==
  LET p       == IF IsNumber(pl) THEN Num(pl) ELSE cg.minPlayers
      bounded == MathMax(cg.minPlayers, MathMin(cg.maxPlayers, p))
  IN  [ players  |-> << bounded >>,
        mods     |-> IF cg.maxMods = 0 THEN <<>>
                     ELSE IF Len(md) > cg.maxMods THEN Slice0(md, cg.maxMods)
                     ELSE md,
        modDraft |-> IF cg.maxMods = 0 THEN <<>> ELSE draft ]

(***************************************************************************)
(* Construction: the useState initialisers and the first run of the load   *)
(* effect, which sets loading and issues both fetches.                     *)
(***************************************************************************)
\* values of the initialPlan prop
InitialPlans == { "undefined", "Quarterly", "Premium", "budget", "weekly" }

\* String.prototype.toLowerCase on the values of InitialPlans
ToLowerCase(s) == IF s = "Premium" THEN "premium" ELSE IF s = "Quarterly" THEN "quarterly" ELSE s

\* useState initialiser of selectedPlan
InitialSelectedPlan(initialPlan) ==
  IF initialPlan # "undefined" /\ Includes(pricingPlans, initialPlan)
    THEN initialPlan
    ELSE pricingPlans[1]

\* useState initialiser of selectedTier
InitialSelectedTier(initialPlan) ==
  LET initial == IF initialPlan # "undefined" THEN ToLowerCase(initialPlan) ELSE ""
  IN  IF Includes(serverTiers, initial) THEN initial ELSE "standard"

\* one run of the load effect's async body, up to its await
NewLoad(name) == [ name |-> name, locs |-> Pending, g |-> Pending ]

Init ==
  /\ initialGameName \in GameNames
  /\ games = <<>>
  /\ locations = <<>>
  /\ gameId = ""
  /\ players = <<>>
  /\ locationId = ""
  /\ mods = <<>>
  /\ modDraft = <<>>
  /\ loading = TRUE
  /\ err = <<>>
  /\ building = FALSE
  /\ \E initialPlan \in InitialPlans :
       /\ selectedPlan = InitialSelectedPlan(initialPlan)
       /\ selectedTier = InitialSelectedTier(initialPlan)
  /\ loads = << NewLoad(initialGameName) >>
  /\ inflight = 0
  /\ alert = NoAlert
  /\ href = NoHref

(***************************************************************************)
(* The load effect after its await: Promise.all has settled.               *)
(***************************************************************************)
\* catch (e) { setErr(e.message || ...) } finally { setLoading(false) }
LoadFailed(message) ==
  /\ err' = message
  /\ loading' = FALSE
  /\ UNCHANGED << games, locations, gameId, players, locationId, mods, modDraft >>

\* a default location taken from the end of the list
DefaultLocationFromLast(locs) ==
  IF Len(locs) > 0 /\ locs[Len(locs)].id # "" THEN locs[Len(locs)].id ELSE ""

\* const defaultLocation = locs[0]?.id || ""
DefaultLocation(locs) ==
  IF Len(locs) > 0 /\ locs[1].id # "" THEN locs[1].id ELSE ""

\* the try block once both fetches have fulfilled with locs and g
LoadSettled(locs, g) ==
  IF ~IsArray(locs)
    THEN LoadFailed(<< "Locations data is not an array" >>)
    ELSE
      LET entries         == IF IsArray(g) THEN g.items ELSE << g >>
          normalizedGames == Records(entries)
          locList         == Records(locs.items)
      IN  IF Len(normalizedGames) = 0
            THEN LoadFailed(<< "Requested game not found from API" >>)
            ELSE IF Nullish(entries[1])
              \* setGames and setLocations precede normalizedGames[0].id, which
              \* throws; the render that follows throws in games.find and the
              \* component is gone
              THEN /\ games' = normalizedGames
                   /\ locations' = locList
                   /\ err' = TypeErrorMessage
                   /\ loading' = FALSE
                   /\ UNCHANGED << gameId, players, locationId, mods, modDraft >>
            ELSE
              LET defaultGameId   == normalizedGames[1].id
                  defaultLocation == DefaultLocation(locList)
                  minP == normalizedGames[1].minPlayers
                  \* the [gameId] effect runs after the render when gameId changed
                  n == IF defaultGameId # gameId
                         THEN NormalizeOnGame(
                                CurrentGameOf(normalizedGames, defaultGameId),
                                << minP >>, <<>>, <<>>)
                         ELSE [ players |-> << minP >>, mods |-> <<>>,
                                modDraft |-> <<>> ]
              IN  /\ games' = normalizedGames
                  /\ locations' = locList
                  /\ gameId' = defaultGameId
                  /\ locationId' = defaultLocation
                  /\ players' = n.players
                  /\ mods' = n.mods
                  /\ modDraft' = n.modDraft
                  /\ loading' = FALSE
                  /\ UNCHANGED err

Remove(s, i) == SubSeq(s, 1, i - 1) \o SubSeq(s, i + 1, Len(s))

\* a load that shows the locations as soon as they arrive, without waiting
\* for the games
LocationsArriveEager(i, res) ==
  LET load == loads[i]
      r    == fetchJSON("locations.json", res)
  IN  /\ load.locs = Pending
      /\ IF r.threw
           THEN LoadFailed(r.message) /\ loads' = Remove(loads, i)
           ELSE IF load.g = Pending
             THEN /\ loads' = [ loads EXCEPT ![i].locs = r.value ]
                  /\ locations' = IF IsArray(r.value) THEN Records(r.value.items)
                                  ELSE locations
                  /\ UNCHANGED << games, gameId, players, locationId,
                                  mods, modDraft, loading, err >>
             ELSE LoadSettled(r.value, load.g) /\ loads' = Remove(loads, i)

\* the response to the locations fetch of load i arrives
LocationsArrive(i, res) ==
  LET load == loads[i]
      r    == fetchJSON("locations.json", res)
  IN  /\ load.locs = Pending
      /\ IF r.threw
           THEN LoadFailed(r.message) /\ loads' = Remove(loads, i)
           ELSE IF load.g = Pending
             THEN /\ loads' = [ loads EXCEPT ![i].locs = r.value ]
                  /\ UNCHANGED << games, locations, gameId, players, locationId,
                                  mods, modDraft, loading, err >>
             ELSE LoadSettled(r.value, load.g) /\ loads' = Remove(loads, i)

\* the response to the games fetch of load i arrives
GamesArrive(i, res) ==
  LET load == loads[i]
      r    == fetchJSON("games.json", res)
  IN  /\ load.g = Pending
      /\ IF r.threw
           THEN LoadFailed(r.message) /\ loads' = Remove(loads, i)
           ELSE IF load.locs = Pending
             THEN /\ loads' = [ loads EXCEPT ![i].g = fetchGameByName(r.value) ]
                  /\ UNCHANGED << games, locations, gameId, players, locationId,
                                  mods, modDraft, loading, err >>
             ELSE LoadSettled(load.locs, fetchGameByName(r.value))
                    /\ loads' = Remove(loads, i)

FetchArrive ==
  /\ Idle
  /\ \E i \in 1..Len(loads) :
       \/ \E res \in LocationsResponses : LocationsArrive(i, res)
       \/ \E res \in Responses(GamesPayloads(loads[i].name)) : GamesArrive(i, res)
  /\ UNCHANGED << initialGameName, building, selectedPlan, selectedTier,
                  inflight, alert, href >>

\* games.find((g) => g.id === gameId) throws on a null entry while the
\* component renders: the component is unmounted and runs nothing more
Crashed == \E i \in 1..Len(games) : games[i] = JNull

\* what the component shows: the early returns of the render, in their order
View ==
  IF Crashed THEN "nothing"
  ELSE IF loading THEN "spinner"
  ELSE IF err # <<>> THEN "error"
  ELSE IF ~HasGame(games) THEN "no game data"
  ELSE "configurator"

\* the names the parent switches between: none, a game of the catalog, and a
\* name the catalog does not hold
LoadNames == { "", "Rust", "Unknown" }

\* the parent passes another initialGameName: the [initialGameName] effect runs
\* again, sets loading and issues both fetches; err is left as it is
ChangeGameName ==
  /\ Idle
  /\ ~Crashed
  /\ Len(loads) < MaxLoads
  /\ \E name \in LoadNames \ { initialGameName } :
       /\ initialGameName' = name
       /\ loads' = Append(loads, NewLoad(name))
  /\ loading' = TRUE
  /\ UNCHANGED << games, locations, gameId, players, locationId, mods, modDraft,
                  err, building, selectedPlan, selectedTier, inflight, alert, href >>

(* setGameId, setModDraft, addMod and removeMod are defined by the         *)
(* component but bound to no element of its JSX; they are operations of    *)
(* the selection state all the same and may run whenever it is rendered.   *)
(***************************************************************************)
\* greatest element of a non-empty set of numbers
Max(S) == CHOOSE x \in S : \A y \in S : y <= x

\* positions the user may try to drag the players and the mods range input
\* to: every position some game allows, and one beyond
PlayerPositions == 0..(Max({ GamesDb[i].maxPlayers : i \in 1..Len(GamesDb) }) + 1)
ModPositions    == 0..(Max({ GamesDb[i].maxMods : i \in 1..Len(GamesDb) }) + 1)

\* indices removeMod may be called with: every position of a list, and one
\* beyond at either end
RemoveIndices == -1..Max({ GamesDb[i].maxMods : i \in 1..Len(GamesDb) })

\* texts typed into the mod draft
Drafts == { <<>>, << " " >>, << " ", "a", " " >> }

\* a || b on numbers
OrNum(a, b) == IF a # 0 THEN a ELSE b

\* setGameId(id) followed by the [gameId] effect of the next render
SetGameTo(id) ==
  /\ Rendered
  /\ id # gameId
  /\ LET n == NormalizeOnGame(CurrentGameOf(games, id), players, mods, modDraft)
     IN  /\ gameId' = id
         /\ players' = n.players
         /\ mods' = n.mods
         /\ modDraft' = n.modDraft
  /\ UNCHANGED << initialGameName, games, locations, locationId, loading, err,
                  building, selectedPlan, selectedTier, loads, inflight, alert, href >>

SetGame == \E i \in 1..Len(games) : SetGameTo(games[i].id)

\* players range input dragged to position v:
\* onChange={(e) => setPlayers(Number(e.target.value))}
SetPlayersAt(v) ==
  /\ Rendered
  /\ UNCHANGED << mods, modDraft, locationId, gameId, building, selectedPlan,
                  selectedTier, inflight, alert, href, initialGameName, games,
                  locations, loading, err, loads >>
  /\ players' = << RangeInputValue(v, currentGame.minPlayers, currentGame.maxPlayers) >>

SetPlayers == \E v \in PlayerPositions : SetPlayersAt(v)

\* location select: onChange={(e) => setLocationId(e.target.value)}
SetLocation ==
  /\ Rendered
  /\ \E i \in 1..Len(locations) : locationId' = locations[i].id
  /\ UNCHANGED << initialGameName, games, locations, gameId, players, mods,
                  modDraft, loading, err, building, selectedPlan, selectedTier,
                  loads, inflight, alert, href >>

\* setModDraft
SetModDraft ==
  /\ Rendered
  /\ \E d \in Drafts : modDraft' = d
  /\ UNCHANGED << initialGameName, games, locations, gameId, players, locationId,
                  mods, loading, err, building, selectedPlan, selectedTier,
                  loads, inflight, alert, href >>

\* an addMod that does not look for the name in the list
addModWithoutIncludes(cg, md, draft) ==
  LET name == Trim(draft)
  IN  IF name = <<>> THEN [ mods |-> md, modDraft |-> draft ]
      ELSE IF Len(md) >= cg.maxMods THEN [ mods |-> md, modDraft |-> draft ]
      ELSE [ mods |-> Append(md, name), modDraft |-> <<>> ]

\* const addMod: the mod list and the draft it leaves
addMod(cg, md, draft) ==
  LET name == Trim(draft)
  IN  IF name = <<>> THEN [ mods |-> md, modDraft |-> draft ]
      ELSE IF Includes(md, name) THEN [ mods |-> md, modDraft |-> draft ]
      ELSE IF Len(md) >= cg.maxMods THEN [ mods |-> md, modDraft |-> draft ]
      ELSE [ mods |-> Append(md, name), modDraft |-> <<>> ]

AddMod ==
  /\ Rendered
  /\ LET r == addMod(currentGame, mods, modDraft)
     IN  mods' = r.mods /\ modDraft' = r.modDraft
  /\ UNCHANGED << initialGameName, games, locations, gameId, players, locationId,
                  loading, err, building, selectedPlan, selectedTier,
                  loads, inflight, alert, href >>

\* a removeMod that counts the index from 1
removeModFromOne(prev, index) ==
  LET keep == { i \in 1..Len(prev) : i # index }
      F[k \in 0..Len(prev)] ==
        IF k = 0 THEN <<>>
        ELSE IF k \in keep THEN Append(F[k - 1], prev[k]) ELSE F[k - 1]
  IN  F[Len(prev)]

\* const removeMod: prev.filter((_, i) => i !== index), index counted from 0
removeMod(prev, index) ==
  LET keep == { i \in 1..Len(prev) : i - 1 # index }
      F[k \in 0..Len(prev)] ==
        IF k = 0 THEN <<>>
        ELSE IF k \in keep THEN Append(F[k - 1], prev[k]) ELSE F[k - 1]
  IN  F[Len(prev)]

RemoveModAt(index) ==
  /\ Rendered
  /\ UNCHANGED << players, modDraft, locationId, gameId, building, selectedPlan,
                  selectedTier, inflight, alert, href, initialGameName, games,
                  locations, loading, err, loads >>
  /\ mods' = removeMod(mods, index)

RemoveMod == \E index \in RemoveIndices : RemoveModAt(index)

\* mods range input onChange, given Number(e.target.value)
modsSlider(md, newCount) ==
  LET Push[k \in Len(md)..MathMax(Len(md), newCount)] ==
        IF k = Len(md) THEN md
        ELSE Append(Push[k - 1], << "m", "o", "d" >> \o NumStr(k))
  IN  IF newCount < Len(md) THEN Slice0(md, newCount)
      ELSE IF newCount > Len(md) THEN Push[newCount]
      ELSE md

\* the mods range input is rendered only when modsSupported
SetModCount ==
  /\ Rendered
  /\ modsSupported
  /\ \E v \in ModPositions :
       mods' = modsSlider(mods, RangeInputValue(v, OrNum(currentGame.minMods, 0),
                                                OrNum(currentGame.maxMods, 10)))
  /\ UNCHANGED << initialGameName, games, locations, gameId, players, locationId,
                  modDraft, loading, err, building, selectedPlan, selectedTier,
                  loads, inflight, alert, href >>

\* billing buttons: onClick={() => setSelectedPlan(p.name)}
SetSelectedPlan ==
  /\ Rendered
  /\ \E i \in 1..Len(pricingPlans) : selectedPlan' = pricingPlans[i]
  /\ UNCHANGED << initialGameName, games, locations, gameId, players, locationId,
                  mods, modDraft, loading, err, building, selectedTier,
                  loads, inflight, alert, href >>

\* tier buttons: onClick={() => setSelectedTier(t.id)}
SetSelectedTier ==
  /\ Rendered
  /\ \E i \in 1..Len(serverTiers) : selectedTier' = serverTiers[i]
  /\ UNCHANGED << initialGameName, games, locations, gameId, players, locationId,
                  mods, modDraft, loading, err, building, selectedPlan,
                  loads, inflight, alert, href >>

\* a canSubmit that does not look at the location
canSubmitWithoutLocation ==
  IF ~HasGame(games) THEN FALSE
  ELSE IF gameId = "" THEN FALSE
  ELSE IF players = <<>> \/ ~IsNumber(players) THEN FALSE
  ELSE IF Num(players) < currentGame.minPlayers
            \/ Num(players) > currentGame.maxPlayers THEN FALSE
  ELSE IF modsSupported
    THEN IF Len(mods) < currentGame.minMods THEN FALSE
         ELSE IF Len(mods) > currentGame.maxMods THEN FALSE
         ELSE TRUE
  ELSE IF Len(mods) > 0 THEN FALSE
  ELSE TRUE

(***************************************************************************)
(* const canSubmit                                                         *)
(***************************************************************************)
canSubmit ==
  IF ~HasGame(games) THEN FALSE
  ELSE IF gameId = "" \/ locationId = "" THEN FALSE
  ELSE IF players = <<>> \/ ~IsNumber(players) THEN FALSE
  ELSE IF Num(players) < currentGame.minPlayers
            \/ Num(players) > currentGame.maxPlayers THEN FALSE
  ELSE IF modsSupported
    THEN IF Len(mods) < currentGame.minMods THEN FALSE
         ELSE IF Len(mods) > currentGame.maxMods THEN FALSE
         ELSE TRUE
  ELSE IF Len(mods) > 0 THEN FALSE
  ELSE TRUE

(***************************************************************************)
(* const buildAndRedirect                                                  *)
(***************************************************************************)
\* !players
NotPlayers(p) == p = <<>> \/ (IsNumber(p) /\ Num(p) = 0)

\* the checks before the request: the text of the alert raised, <<>> if none
Validation ==
  IF ~HasGame(games) THEN << "Please select a game" >>
  ELSE IF NotPlayers(players) \/ ~IsNumber(players)
    THEN << "Please select the number of players" >>
  ELSE IF Num(players) < currentGame.minPlayers
            \/ Num(players) > currentGame.maxPlayers
    THEN << "Players must be between", currentGame.minPlayers, currentGame.maxPlayers >>
  ELSE IF locationId = "" THEN << "Please select a location" >>
  ELSE IF modsSupported /\ Len(mods) < currentGame.minMods
    THEN << "Minimum mods required", currentGame.minMods >>
  ELSE IF modsSupported /\ Len(mods) > currentGame.maxMods
    THEN << "Maximum mods allowed", currentGame.maxMods >>
  ELSE <<>>

\* a request that sends the mod list itself, as String(mods) renders it
BuildlinkParamsWithModNames ==
  LET Join[k \in 0..Len(mods)] ==
        IF k = 0 THEN <<>>
        ELSE IF k = 1 THEN mods[1]
        ELSE Join[k - 1] \o << "," >> \o mods[k]
  IN  [ handler  |-> "buildlink",
        game     |-> currentGame.name,
        players  |-> NumStr(Num(players)),
        location |-> locationId,
        mods     |-> Join[Len(mods)] ]

\* const params = new URLSearchParams({...}): the query of the buildlink
\* request, numbers rendered by String()
BuildlinkParams ==
  [ handler  |-> "buildlink",
    game     |-> currentGame.name,
    players  |-> NumStr(Num(players)),
    location |-> locationId,
    mods     |-> NumStr(Len(mods)) ]

\* BUY PLAN clicked: buildAndRedirect up to its first alert or to its await
Buy ==
  /\ Rendered
  /\ inflight < MaxInflight
  /\ IF Validation # <<>>
       THEN /\ alert' = [ msg |-> Validation, next |-> "return" ]
            /\ UNCHANGED << building, inflight >>
       ELSE /\ building' = TRUE
            /\ inflight' = inflight + 1
            /\ UNCHANGED alert
  /\ UNCHANGED << initialGameName, games, locations, gameId, players, locationId,
                  mods, modDraft, loading, err, selectedPlan, selectedTier,
                  loads, href >>

\* the href assigned to window.location for a truthy cartLink
HrefOf(j) == IF j.t = "string" THEN j.s ELSE "[object Object]"

\* the try block after await fetch: the cart link, or the error thrown
ExtractCartLink(res) ==
  IF ~res.ok
    THEN [ threw |-> TRUE, message |-> << "buildlink failed", res.status >> ]
  ELSE IF Nullish(res.body) \/ Nullish(Unwrap(res.body))
    THEN [ threw |-> TRUE, message |-> TypeErrorMessage ]
  ELSE
    LET data        == Unwrap(res.body)
        redirectUrl == OrElse(OrElse(Get(data, "link"), Get(data, "url")),
                              OrElse(data, JNull))
        cartLink    == OrElse(OrElse(Get(redirectUrl, "cart-link"),
                                     Get(redirectUrl, "cart_link")),
                              IF redirectUrl.t = "string" THEN redirectUrl ELSE JNull)
    IN  IF ~Truthy(redirectUrl)
          THEN [ threw |-> TRUE, message |-> << "No checkout link returned." >> ]
        ELSE IF ~Truthy(cartLink)
          THEN [ threw |-> TRUE,
                 message |-> << "No cart link found on API response." >> ]
        ELSE [ threw |-> FALSE, url |-> HrefOf(cartLink) ]

\* responses of the buildlink endpoint
CheckoutResponses ==
  { Http(200, JEnvelope(TRUE,
        JObject([ link |-> JObject("cart-link" :> JString("https://pay.example/abc")) ]))),
    Http(200, JObject([ data |-> JObject([ link |-> JString("X") ]) ])),
    Http(200, JEnvelope(TRUE, JObject([ link |-> JString("X"), url |-> JString("Y") ]))),
    Http(200, JObject([ url |-> JObject(("cart-link" :> JString("X"))
                                          @@ ("cart_link" :> JString("Y"))) ])),
    Http(200, JObject([ link |-> JObject("cart_link" :> JString("X")) ])),
    Http(200, JString("X")),
    Http(200, JObject([ message |-> JString("no plan") ])),
    Http(200, JString("")),
    Http(200, JEnvelope(TRUE, JNull)),
    Http(500, JObject([ error |-> JString("server") ])) }

\* the buildlink response res arrives: the rest of the try block, up to the
\* alert of the catch block or through the finally block
CheckoutArriveWith(res) ==
  /\ Idle
  /\ inflight > 0
  /\ inflight' = inflight - 1
  /\ LET r == ExtractCartLink(res)
     IN  IF r.threw
           THEN /\ alert' = [ msg |-> r.message, next |-> "finally" ]
                /\ UNCHANGED << building, href >>
           ELSE /\ href' = r.url
                /\ building' = FALSE
                /\ UNCHANGED alert
  /\ UNCHANGED << initialGameName, games, locations, gameId, players, locationId,
                  mods, modDraft, loading, err, selectedPlan, selectedTier, loads >>

CheckoutArrive == \E res \in CheckoutResponses : CheckoutArriveWith(res)

\* the user dismisses the alert; the handler that raised it resumes: a validation
\* alert is followed by return, the alert of the catch block by the finally block
DismissAlert ==
  /\ alert # NoAlert
  /\ alert' = NoAlert
  /\ building' = IF alert.next = "finally" THEN FALSE ELSE building
  /\ UNCHANGED << initialGameName, games, locations, gameId, players, locationId,
                  mods, modDraft, loading, err, selectedPlan, selectedTier,
                  loads, inflight, href >>

(***************************************************************************)
(* Specification.                                                          *)
(***************************************************************************)
Next ==
  \/ FetchArrive
  \/ SetGame
  \/ SetPlayers
  \/ SetLocation
  \/ SetModDraft
  \/ AddMod
  \/ RemoveMod
  \/ SetModCount
  \/ SetSelectedPlan
  \/ SetSelectedTier
  \/ Buy
  \/ CheckoutArrive
  \/ DismissAlert

Spec == Init /\ [][Next]_vars

\* the catalog load alone, under changes of the requested game name
NextLoads ==
  \/ FetchArrive
  \/ ChangeGameName

\* construction without an initialPlan, for one of the names switched between
InitLoads ==
  /\ Init
  /\ initialGameName \in LoadNames
  /\ selectedPlan = InitialSelectedPlan("undefined")
  /\ selectedTier = InitialSelectedTier("undefined")

SpecLoads == InitLoads /\ [][NextLoads]_vars

(***************************************************************************)
(* Vocabulary of the claims.                                               *)
(***************************************************************************)
Abs(x) == IF x < 0 THEN -x ELSE x

\* clamp(p, lo, hi) for lo <= hi: the point of [lo, hi] nearest to p
Clamp(p, lo, hi) ==
  CHOOSE q \in lo..hi : \A r \in lo..hi : Abs(q - p) <= Abs(r - p)

\* the loaded game the selection names
IsSelectedGame(g) == g \in Range(games) /\ g.id = gameId

\* s consists of blanks only
Blank(s) == \A i \in 1..Len(s) : s[i] = " "

\* n is d without its leading and trailing blanks
IsTrimOf(n, d) ==
  /\ n # <<>> => n[1] # " " /\ n[Len(n)] # " "
  /\ \E i \in 0..Len(d) :
       /\ i + Len(n) <= Len(d)
       /\ SubSeq(d, i + 1, i + Len(n)) = n
       /\ Blank(SubSeq(d, 1, i))
       /\ Blank(SubSeq(d, i + Len(n) + 1, Len(d)))

\* an invocation of buildAndRedirect returns in this step: its alert is
\* dismissed, or it has assigned window.location.href
InvocationReturns ==
  \/ alert # NoAlert /\ alert' = NoAlert
  \/ href = NoHref /\ href' # NoHref

(***************************************************************************)
(* C1.  At most one checkout request is outstanding at any time: a further *)
(* activation of BUY PLAN while a request is outstanding sends no second   *)
(* request.  The code never reads `building` and never disables the        *)
(* button, so this fails.                                                  *)
(***************************************************************************)
C1_AtMostOneOutstanding == inflight <= 1

(***************************************************************************)
(* C2.  After every completed invocation of buildAndRedirect, building is  *)
(* false, whichever way it exits.  Fails when an invocation exits by a     *)
(* validation alert while the request of an earlier one is outstanding.    *)
(***************************************************************************)
C2_BuildingClearedOnExit == [][ InvocationReturns => building' = FALSE ]_vars

C4_UnsupportedClearsMods ==
  [][ (gameId' # gameId
        /\ \E g \in Range(games') : g.id = gameId' /\ g.maxMods = 0)
      => mods' = <<>> ]_vars

\* a game without mod support is selected that is not the catalog's default
C4_Witness ==
  /\ Rendered
  /\ Len(games) > 1
  /\ gameId = "valheim"
  /\ gameId # games[1].id
  /\ mods = <<>>

(***************************************************************************)
(* C5.  On a change of the selected game, players becomes                  *)
(* clamp(previous players, minPlayers, maxPlayers) of the new game         *)
(* (minPlayers when no number was set); a mod list longer than the new     *)
(* game's maxMods > 0 becomes its first maxMods elements, in order; a mod  *)
(* list within the limit is left unchanged.                                *)
(***************************************************************************)
C5_SetGameNormalizes ==
  [][ /\ \A g \in Range(games) :
           SetGameTo(g.id) =>
             /\ IsNumber(players) =>
                  players' = << Clamp(Num(players), g.minPlayers, g.maxPlayers) >>
             /\ ~IsNumber(players) => players' = << g.minPlayers >>
             /\ (g.maxMods > 0 /\ Len(mods) > g.maxMods) =>
                  /\ Len(mods') = g.maxMods
                  /\ \A k \in 1..g.maxMods : mods'[k] = mods[k]
             /\ Len(mods) <= g.maxMods => mods' = mods
      /\ (gameId' # gameId /\ ~IsNumber(players)) =>
           \E g \in Range(games') :
             g.id = gameId' /\ players' = << g.minPlayers >> ]_vars

\* a catalog of several games whose selection was switched to "ark", which
\* allows exactly one player and one mod
C5_Witness ==
  /\ Rendered
  /\ Len(games) > 1
  /\ gameId = "ark"
  /\ gameId # games[1].id
  /\ players = << 1 >>
  /\ mods = << << "a" >> >>

(***************************************************************************)
(* C6.  addMod leaves the mod list unchanged when the trimmed draft is     *)
(* blank, is already in the list, or the list already has maxMods          *)
(* elements; otherwise it appends the trimmed draft as the last element.   *)
(* So a second addMod of a name just added changes nothing.                *)
(***************************************************************************)
C6_AddMod ==
  [][ AddMod =>
        \E g \in Range(games) :
          /\ IsSelectedGame(g)
          /\ IF \/ Blank(modDraft)
                \/ \E k \in 1..Len(mods) : IsTrimOf(mods[k], modDraft)
                \/ Len(mods) >= g.maxMods
               THEN mods' = mods
               ELSE /\ Len(mods') = Len(mods) + 1
                    /\ SubSeq(mods', 1, Len(mods)) = mods
                    /\ IsTrimOf(mods'[Len(mods')], modDraft) ]_vars

\* the name typed as " a " was appended, trimmed, behind a mod of the slider
C6_Witness ==
  /\ Rendered
  /\ mods = << << "m", "o", "d", "1" >>, << "a" >> >>
  /\ modDraft = <<>>

(***************************************************************************)
(* C7.  removeMod(index) with 0 <= index < length yields the mod list      *)
(* without the element at that position, the others in their order; for    *)
(* any other index the list is unchanged.  No other selection field        *)
(* changes.                                                                *)
(***************************************************************************)
C7_RemoveMod ==
  [][ \A index \in RemoveIndices :
        RemoveModAt(index) =>
          /\ IF 0 <= index /\ index < Len(mods)
               THEN /\ Len(mods') = Len(mods) - 1
                    /\ \A k \in 1..Len(mods') :
                         mods'[k] = IF k <= index THEN mods[k] ELSE mods[k + 1]
               ELSE mods' = mods
          /\ UNCHANGED << gameId, players, locationId, selectedPlan, selectedTier >>
    ]_vars

\* the slider names the k-th mod "modk": a list that starts with "mod2" has
\* lost its first element
C7_Witness ==
  /\ Rendered
  /\ mods = << << "m", "o", "d", "2" >> >>

(***************************************************************************)
(* C8.  In every state canSubmit is true exactly when a game and a         *)
(* location are selected, players is a number within                       *)
(* [minPlayers, maxPlayers] of the selected game, and the mod count is 0   *)
(* if the game does not support mods or within [minMods, maxMods] if it    *)
(* does.                                                                   *)
(***************************************************************************)
C8_CanSubmitExactly ==
  canSubmit <=>
    /\ gameId # ""
    /\ locationId # ""
    /\ \E g \in Range(games) :
         /\ IsSelectedGame(g)
         /\ IsNumber(players)
         /\ g.minPlayers <= Num(players)
         /\ Num(players) <= g.maxPlayers
         /\ IF g.maxMods = 0 THEN Len(mods) = 0
            ELSE g.minMods <= Len(mods) /\ Len(mods) <= g.maxMods

\* a submittable selection of a game that requires mods
C8_Witness ==
  /\ canSubmit
  /\ modsRequired
  /\ Len(mods) = currentGame.maxMods
  /\ locationId = "fra"

(***************************************************************************)
(* C9.  canSubmit is false whenever the player count is outside the        *)
(* selected game's [minPlayers, maxPlayers], and true for every game's     *)
(* default selection (players = minPlayers, the mod list as initialized)   *)
(* once a valid location is chosen.  Fails for a game that requires mods:  *)
(* the load leaves the mod list empty.                                     *)
(***************************************************************************)
C9_CanSubmitDefault ==
  \A g \in Range(games) :
    IsSelectedGame(g) =>
      /\ (IsNumber(players)
            /\ (Num(players) < g.minPlayers \/ Num(players) > g.maxPlayers))
           => ~canSubmit
      /\ (/\ players = << g.minPlayers >>
          /\ mods = <<>>
          /\ \E l \in Range(locations) : l.id = locationId)
           => canSubmit

(***************************************************************************)
(* C10.  When the selection violates a submit-validation rule, the         *)
(* checkout action sends no request and reports the first violated rule    *)
(* in the order: game selected, player count in range, location selected,  *)
(* mod count in range.  Fails for players = 0 in a game with               *)
(* minPlayers = 0: the player count is reported although it is in range.   *)
(***************************************************************************)
\* the first submit-validation rule the selection violates
FirstViolatedRule ==
  IF ~\E g \in Range(games) : IsSelectedGame(g) THEN "game"
  ELSE LET g == CHOOSE h \in Range(games) : IsSelectedGame(h)
       IN  IF ~(/\ IsNumber(players)
                /\ g.minPlayers <= Num(players)
                /\ Num(players) <= g.maxPlayers) THEN "players"
           ELSE IF locationId = "" THEN "location"
           ELSE IF ~(IF g.maxMods = 0 THEN Len(mods) = 0
                     ELSE g.minMods <= Len(mods) /\ Len(mods) <= g.maxMods)
             THEN "mods"
           ELSE "none"

\* the rule an alert text of buildAndRedirect names
RuleOfAlert(msg) ==
  CASE msg[1] = "Please select a game"                -> "game"
    [] msg[1] = "Please select the number of players" -> "players"
    [] msg[1] = "Players must be between"             -> "players"
    [] msg[1] = "Please select a location"            -> "location"
    [] msg[1] = "Minimum mods required"               -> "mods"
    [] msg[1] = "Maximum mods allowed"                -> "mods"
    [] OTHER                                          -> "other"

C10_FirstViolatedRuleReported ==
  [][ (Buy /\ FirstViolatedRule # "none") =>
        /\ inflight' = inflight
        /\ alert' # NoAlert
        /\ RuleOfAlert(alert'.msg) = FirstViolatedRule ]_vars

(***************************************************************************)
(* C11.  Every checkout request carries exactly the selected game's        *)
(* display name, the current player count, the selected location           *)
(* identifier and the number of mods (the length of the mod list) as       *)
(* query parameters; the mod names themselves are not in the request.      *)
(***************************************************************************)
\* the decimal numeral of a small natural number
Numeral(n) == << << "0" >>, << "1" >>, << "2" >>, << "3" >>, << "4" >>,
                 << "5" >>, << "6" >>, << "7" >>, << "8" >>, << "9" >> >>[n + 1]

\* the Buy step sends a request
Sends == Buy /\ inflight' = inflight + 1

C11_RequestParameters ==
  [][ Sends =>
        \E g \in Range(games) :
          /\ IsSelectedGame(g)
          /\ BuildlinkParams.game = g.name
          /\ BuildlinkParams.players = Numeral(Num(players))
          /\ BuildlinkParams.location = locationId
          /\ BuildlinkParams.mods = Numeral(Len(mods))
          /\ DOMAIN BuildlinkParams = { "handler", "game", "players", "location", "mods" }
    ]_vars

\* a request is outstanding for a selection of two mods
C11_Witness ==
  /\ inflight = 1
  /\ building
  /\ Len(mods) = 2
  /\ modsRequired


(***************************************************************************)
(* C12.  For every checkout response payload (after the envelope unwrap)   *)
(* the redirect target is the result of the ordered chain: take `link`,    *)
(* else `url`, else the payload itself; of an object take `cart-link`,     *)
(* else `cart_link`; take a string directly; when the chain yields no      *)
(* value the checkout fails with an error and the page does not navigate.  *)
(* The response {ok: true, data: {link: {"cart-link": U}}} redirects to U  *)
(* and the response {data: {link: "X"}} to "X".  Fails for the latter:     *)
(* a body without `ok` is not unwrapped and has no link of its own.        *)
(***************************************************************************)
\* the member k of j is there and holds a value
Has(j, k) ==
  /\ j.t = "object"
  /\ k \in DOMAIN j.v
  /\ j.v[k].t \in { "object", "array" } \/ (j.v[k].t = "string" /\ j.v[k].s # "")

\* the value the chain resolves a payload to, JUndefined when there is none
ChainTarget(payload) ==
  LET first == IF Has(payload, "link") THEN Get(payload, "link")
               ELSE IF Has(payload, "url") THEN Get(payload, "url")
               ELSE payload
  IN  IF first.t = "object"
        THEN IF Has(first, "cart-link") THEN Get(first, "cart-link")
             ELSE IF Has(first, "cart_link") THEN Get(first, "cart_link")
             ELSE JUndefined
      ELSE IF first.t = "string" /\ first.s # "" THEN first
      ELSE JUndefined

\* the two responses the claim names
ResponseNestedCartLink ==
  Http(200, JEnvelope(TRUE,
      JObject([ link |-> JObject("cart-link" :> JString("https://pay.example/abc")) ])))
ResponseDataLink ==
  Http(200, JObject([ data |-> JObject([ link |-> JString("X") ]) ]))

\* the chain, applied to the payload the code unwraps
ChainFollowed ==
  \A res \in CheckoutResponses :
    (CheckoutArriveWith(res) /\ res.ok) =>
      LET target == ChainTarget(Unwrap(res.body))
      IN  IF target.t = "string"
            THEN href' = target.s
            ELSE href' = NoHref /\ alert' # NoAlert

C12_RedirectChain ==
  [][ /\ ChainFollowed
      /\ CheckoutArriveWith(ResponseNestedCartLink) => href' = "https://pay.example/abc"
      /\ CheckoutArriveWith(ResponseDataLink) => href' = "X" ]_vars


(***************************************************************************)
(* C13.  For a successful HTTP response the fetcher returns the `data`     *)
(* member whenever the parsed body has a boolean `ok` field, true or       *)
(* false, and the parsed body unchanged when it has none.  Fails for       *)
(* {ok: false, data: D}: the body itself is returned.                      *)
(***************************************************************************)
HasBooleanOk(body) ==
  /\ body.t = "object"
  /\ "ok" \in DOMAIN body.v
  /\ body.v["ok"].t = "boolean"

\* what the fetcher is to return for a parsed body
Fetched(body) == IF HasBooleanOk(body) THEN Get(body, "data") ELSE body

C13_FetcherUnwraps ==
  [][ \A i \in 1..Len(loads) :
        /\ \A res \in LocationsResponses :
             (res.ok /\ loads[i].g = Pending /\ LocationsArrive(i, res))
               => loads'[i].locs = Fetched(res.body)
        /\ \A res \in Responses(GamesPayloads(loads[i].name)) :
             (res.ok /\ loads[i].locs = Pending /\ GamesArrive(i, res))
               => loads'[i].g = fetchGameByName(Fetched(res.body))
    ]_vars


(***************************************************************************)
(* C14.  Catalog normalization turns a single game object into a           *)
(* one-element list and succeeds for every games result with at least one  *)
(* entry and a list-valued locations result; it fails with the             *)
(* empty-catalog error when zero games are returned and with the           *)
(* malformed-data error when the locations payload is not a list.  Fails   *)
(* for a games result of null: no game is returned, and the load ends      *)
(* with a TypeError instead of the empty-catalog error.                    *)
(***************************************************************************)
EmptyCatalogError  == << "Requested game not found from API" >>
MalformedDataError == << "Locations data is not an array" >>

\* the games a games result holds
GamesOf(result) ==
  IF result.t = "array" THEN SelectSeq(result.items, LAMBDA e : e.t = "object")
  ELSE IF result.t = "object" THEN << result >>
  ELSE <<>>

\* the outcome of normalizing a locations result and the games of a games result
Normalized(locs, list) ==
  IF locs.t = "array" /\ Len(list) >= 1
    THEN /\ err' = <<>>
         /\ games' = [ k \in 1..Len(list) |-> list[k].v ]
  ELSE IF locs.t = "array" THEN err' = EmptyCatalogError
  ELSE IF Len(list) >= 1 THEN err' = MalformedDataError
  ELSE err' \in { EmptyCatalogError, MalformedDataError }

C14_CatalogNormalization ==
  [][ \A i \in 1..Len(loads) :
        /\ \A res \in Responses(GamesPayloads(loads[i].name)) :
             (res.ok /\ ~Nullish(res.body) /\ GamesArrive(i, res)) =>
               IF loads[i].locs = Pending
                 THEN Unwrap(res.body).t = "object"
                        => loads'[i].g = JArray(<< Unwrap(res.body) >>)
                 ELSE Normalized(loads[i].locs, GamesOf(Unwrap(res.body)))
        /\ \A res \in LocationsResponses :
             (res.ok /\ ~Nullish(res.body) /\ loads[i].g # Pending
                /\ LocationsArrive(i, res)) =>
               Normalized(Unwrap(res.body), GamesOf(loads[i].g))
    ]_vars


(***************************************************************************)
(* C15.  After a successful initialization the selection is: gameId the    *)
(* identifier of the first loaded game, players that game's minPlayers,    *)
(* locationId the identifier of the first loaded location (empty when the  *)
(* location list is empty), and an empty mod list.                         *)
(***************************************************************************)
\* a load ends without an error
InitializationSucceeds == loading /\ ~loading' /\ err' = <<>>

C15_InitialSelection ==
  [][ InitializationSucceeds =>
        /\ gameId' = games'[1].id
        /\ players' = << games'[1].minPlayers >>
        /\ locationId' = IF locations' = <<>> THEN "" ELSE locations'[1].id
        /\ mods' = <<>> ]_vars

\* the whole catalog was loaded with two locations, and nothing was touched
C15_Witness ==
  /\ Rendered
  /\ Len(games) = Len(GamesDb)
  /\ Len(locations) = 2
  /\ gameId = "minecraft"
  /\ players = << 1 >>
  /\ locationId = "nyc"
  /\ mods = <<>>


(***************************************************************************)
(* C16.  Initialization issues the games fetch and the locations fetch     *)
(* together and initializes the selection only after both have completed   *)
(* successfully; if either fetch fails, initialization fails as a whole:   *)
(* neither the game list, the location list nor any selection field is     *)
(* set from that load.                                                     *)
(***************************************************************************)
\* nothing of the catalog or the selection is set
NothingInitialized ==
  UNCHANGED << games, locations, gameId, players, locationId, mods >>

C16_NoPartialInitialization ==
  [][ \A i \in 1..Len(loads) :
        /\ \A res \in LocationsResponses :
             LocationsArrive(i, res) =>
               /\ loads[i].g = Pending => NothingInitialized
               /\ fetchJSON("locations.json", res).threw
                    => NothingInitialized /\ err' # <<>> /\ ~loading'
        /\ \A res \in Responses(GamesPayloads(loads[i].name)) :
             GamesArrive(i, res) =>
               /\ loads[i].locs = Pending => NothingInitialized
               /\ fetchJSON("games.json", res).threw
                    => NothingInitialized /\ err' # <<>> /\ ~loading'
    ]_vars

\* the games fetch failed: the load is over and nothing was set
C16_Witness ==
  /\ err = << "Failed to fetch", "games.json", 500 >>
  /\ ~loading
  /\ loads = <<>>
  /\ games = <<>>
  /\ locations = <<>>
  /\ gameId = ""
  /\ players = <<>>


(***************************************************************************)
(* C17.  A checkout invocation that fails, whether by a validation rule,   *)
(* a non-success HTTP status or a missing URL, leaves every selection      *)
(* field (gameId, players, locationId, mods, billing plan, tier) as it     *)
(* was before the invocation, and leaves the busy flag false.  Fails for   *)
(* the busy flag when the invocation overlaps an outstanding request.      *)
(***************************************************************************)
\* a step of a checkout invocation
CheckoutStep == Buy \/ CheckoutArrive \/ DismissAlert

\* a failed invocation returns: its alert is dismissed
FailedInvocationReturns == alert # NoAlert /\ alert' = NoAlert

\* no step of a checkout invocation touches the selection
CheckoutKeepsSelection ==
  CheckoutStep =>
    UNCHANGED << gameId, players, locationId, mods, selectedPlan, selectedTier >>

C17_FailedCheckoutFrame ==
  [][ /\ CheckoutKeepsSelection
      /\ FailedInvocationReturns => building' = FALSE ]_vars


(***************************************************************************)
(* C18.  In every state reachable after initialization by selection        *)
(* operations the mod list contains no duplicate names, is empty when the  *)
(* selected game has maxMods = 0, and otherwise has a length within the    *)
(* selected game's [minMods, maxMods].  Fails right after the load of a    *)
(* game that requires mods, whose mod list is empty; removeMod followed    *)
(* by the slider also repeats a name.                                      *)
(***************************************************************************)
NoDuplicates(s) == \A i, j \in 1..Len(s) : s[i] = s[j] => i = j

\* the load has completed without an error
Initialized == ~loading /\ err = <<>> /\ games # <<>>

C18_ModListInvariant ==
  Initialized =>
    \A g \in Range(games) :
      IsSelectedGame(g) =>
        /\ NoDuplicates(mods)
        /\ IF g.maxMods = 0 THEN mods = <<>>
           ELSE g.minMods <= Len(mods) /\ Len(mods) <= g.maxMods


(***************************************************************************)
(* C19.  Once a fetch- or normalization-stage error has occurred during    *)
(* initialization, the UI is in the error display and stays there: no      *)
(* later event, a later load for another requested game name included,     *)
(* shows the catalog or the configurator, and no partial catalog is ever   *)
(* shown.  Fails for a games result of null: the error is recorded, but    *)
(* the render that follows throws and the error display never appears.     *)
(***************************************************************************)
\* an error is recorded by this step
ErrorOccurs == err = <<>> /\ err' # <<>>

\* once recorded the error stays, and the configurator is not shown again
ErrorIsTerminal == err # <<>> => (err' # <<>> /\ View' # "configurator")

C19_TerminalErrorDisplay ==
  [][ /\ ErrorOccurs => View' = "error"
      /\ ErrorIsTerminal
      /\ View' = "configurator" => (err' = <<>> /\ games' # <<>>) ]_vars


(***************************************************************************)
(* C20.  When the requested game name changes while an earlier catalog     *)
(* load is still in flight, then after both loads have completed the held  *)
(* game list and the selection defaults are those of the most recently     *)
(* requested game name, whichever load's responses arrive last.  Fails     *)
(* when the earlier load's responses arrive last: its catalog replaces     *)
(* the one of the newer name.                                              *)
(***************************************************************************)
\* the catalog of a requested name: every game when none is named
CatalogOf(name) ==
  IF name = "" THEN GamesDb ELSE SelectSeq(GamesDb, LAMBDA g : g.name = name)

C20_LatestRequestWins ==
  (loads = <<>> /\ err = <<>>) =>
    /\ games = CatalogOf(initialGameName)
    /\ gameId = games[1].id
    /\ players = << games[1].minPlayers >>
    /\ mods = <<>>


(***************************************************************************)
(* C21.  In every reachable state the busy flag `building` is true         *)
(* whenever at least one checkout request is in flight, for any            *)
(* interleaving of buy activations and response arrivals.  Fails when two  *)
(* requests overlap: the first to complete clears the flag.                *)
(***************************************************************************)
C21_BusyWhileInFlight == inflight > 0 => building

(***************************************************************************)
(* C22.  canSubmit and the checkout action's own validation agree on       *)
(* every selection: the action passes all its checks and issues the        *)
(* request if and only if canSubmit is true in the same state.  Fails for  *)
(* players = 0 in a game with minPlayers = 0: canSubmit is true and the    *)
(* action refuses.                                                         *)
(***************************************************************************)
C22_CanSubmitAgreesWithCheckout ==
  [][ Buy => ((inflight' = inflight + 1) <=> canSubmit) ]_vars


====
